---------------------------- MODULE Spec2Model ----------------------------
(***************************************************************************)
(* Model of mlflow/legacy_databricks_cli/configure/provider.py: the        *)
(* credential provider chain, the process-wide provider override and the   *)
(* read/modify/rewrite of the profile file (~/.databrickscfg).             *)
(*                                                                         *)
(* Representation.                                                         *)
(*  - A Python str is a sequence of one-character strings, so that the     *)
(*    conversions ConfigParser applies to a value (whitespace stripping on *)
(*    read, '%' interpolation on get, '%' validation on set) are computed. *)
(*  - An optional value is a tuple: None is <<>>, a value v is <<v>>.      *)
(*  - The profile file is a sequence of lines; a line is a record          *)
(*    [t, k, v]: a section header "[k]", an option "k = v", a blank line   *)
(*    or a line ConfigParser cannot parse.                                 *)
(*  - A ConfigParser object is [defaults, sections], both insertion        *)
(*    ordered.                                                             *)
(***************************************************************************)
EXTENDS Integers, Sequences, FiniteSets, TLC

VARIABLES
    _config_provider,   \* module global of provider.py (line 25)
    environ,            \* os.environ restricted to the DATABRICKS_* variables
    task_context,       \* pyspark TaskContext.get(), None when there is none
    fs,                 \* the file at _get_path(): existence, st_mode, content
    last,               \* the most recent call of the sequential client and its outcome
    job,                \* concurrent writers: the arguments of each writer's call
    pc,                 \* concurrent writers: position of each in update_and_persist_config
    raw_config          \* concurrent writers: the local raw_config of each

vars == <<_config_provider, environ, task_context, fs, last, job, pc, raw_config>>

-----------------------------------------------------------------------------
(* Program constants *)

HOST == "host"
USERNAME == "username"
PASSWORD == "password"
TOKEN == "token"
REFRESH_TOKEN == "refresh_token"
INSECURE == "insecure"
JOBS_API_VERSION == "jobs-api-version"
DEFAULT_SECTION == "DEFAULT"

\* The seven recognised keys, in the order update_and_persist_config writes them.
Keys == <<HOST, USERNAME, PASSWORD, TOKEN, REFRESH_TOKEN, INSECURE, JOBS_API_VERSION>>

\* st_mode of a regular file with owner read/write only: 0o100600.
S_IFREG_0600 == 33152
\* The permission argument of os.open and os.chmod: 0o600.
MODE_0600 == 384
\* The file-type bits of a regular file: 0o100000.
S_IFREG == 32768

-----------------------------------------------------------------------------
(* Optional values and Python truthiness *)

None == <<>>
Some(v) == <<v>>
Val(x) == x[1]

\* bool(x) of an optional str: None and "" are falsy.
Truthy(x) == x # None /\ Val(x) # <<>>

-----------------------------------------------------------------------------
(* DatabricksConfig *)

DatabricksConfig(host, username, password, token, refresh_token, insecure, jobs_api_version) ==
    [host |-> host, username |-> username, password |-> password, token |-> token,
     refresh_token |-> refresh_token, insecure |-> insecure,
     jobs_api_version |-> jobs_api_version]

from_token(host, token, refresh_token, insecure, jobs_api_version) ==
    DatabricksConfig(host, None, None, token, refresh_token, insecure, jobs_api_version)

from_password(host, username, password, insecure, jobs_api_version) ==
    DatabricksConfig(host, username, password, None, None, insecure, jobs_api_version)

empty == DatabricksConfig(None, None, None, None, None, None, None)

is_valid_with_token(c) == c.host # None /\ c.token # None

is_valid_with_password(c) == c.host # None /\ c.username # None /\ c.password # None

is_valid(c) == is_valid_with_token(c) \/ is_valid_with_password(c)

\* The attribute of a DatabricksConfig that update_and_persist_config stores under a key.
Field(c, key) ==
    CASE key = HOST -> c.host
      [] key = USERNAME -> c.username
      [] key = PASSWORD -> c.password
      [] key = TOKEN -> c.token
      [] key = REFRESH_TOKEN -> c.refresh_token
      [] key = INSECURE -> c.insecure
      [] key = JOBS_API_VERSION -> c.jobs_api_version

-----------------------------------------------------------------------------
(* Outcome of a call: a returned value or a raised exception *)

Return(v) == [tag |-> "return", exc |-> "", msg |-> "", val |-> v]
Raise(e, m) == [tag |-> "raise", exc |-> e, msg |-> m, val |-> None]
Returned(r) == r.tag = "return"
Raised(r) == r.tag = "raise"

\* InvalidConfigurationError.for_profile(profile): the message names the profile
\* when there is one.
for_profile(profile) ==
    IF profile = None
    THEN Raise("InvalidConfigurationError", "not configured")
    ELSE Raise("InvalidConfigurationError", "not configured for profile")

-----------------------------------------------------------------------------
(* str operations used by ConfigParser *)

\* str.strip() for the blank character.
RECURSIVE LStrip(_)
LStrip(s) == IF s # <<>> /\ Head(s) = " " THEN LStrip(Tail(s)) ELSE s

RECURSIVE RStrip(_)
RStrip(s) ==
    IF s # <<>> /\ s[Len(s)] = " " THEN RStrip(SubSeq(s, 1, Len(s) - 1)) ELSE s

Strip(s) == RStrip(LStrip(s))

\* value.replace("%%", ""): non-overlapping pairs, left to right.
RECURSIVE RemoveEscapes(_)
RemoveEscapes(s) ==
    IF s = <<>> THEN <<>>
    ELSE IF Len(s) >= 2 /\ s[1] = "%" /\ s[2] = "%" THEN RemoveEscapes(SubSeq(s, 3, Len(s)))
    ELSE <<Head(s)>> \o RemoveEscapes(Tail(s))

Contains(s, ch) == \E i \in 1..Len(s) : s[i] = ch

\* BasicInterpolation.before_set: after dropping the "%%" escapes (and the
\* %(name)s references, which need a "(" and do not occur in this model) no
\* "%" may remain; otherwise set raises ValueError.
before_set_ok(value) == ~Contains(RemoveEscapes(value), "%")

\* BasicInterpolation.before_get (_interpolate_some): "%%" becomes "%"; a "%"
\* followed by anything but "%" or "(" raises InterpolationSyntaxError.
RECURSIVE before_get(_)
before_get(s) ==
    IF s = <<>> THEN [ok |-> TRUE, val |-> <<>>]
    ELSE IF Head(s) # "%" THEN
        LET rest == before_get(Tail(s))
        IN  [ok |-> rest.ok, val |-> <<Head(s)>> \o rest.val]
    ELSE IF Len(s) >= 2 /\ s[2] = "%" THEN
        LET rest == before_get(SubSeq(s, 3, Len(s)))
        IN  [ok |-> rest.ok, val |-> <<"%">> \o rest.val]
    ELSE [ok |-> FALSE, val |-> <<>>]

-----------------------------------------------------------------------------
(* ConfigParser: the in-memory representation *)

Item(k, v) == [k |-> k, v |-> v]
Section(name, items) == [name |-> name, items |-> items]

\* ConfigParser(): no defaults, no sections.
ConfigParser == [defaults |-> <<>>, sections |-> <<>>]

\* Position of a key in an ordered dict, 0 when absent.
IndexOf(items, k) ==
    IF \E i \in 1..Len(items) : items[i].k = k
    THEN CHOOSE i \in 1..Len(items) : items[i].k = k
    ELSE 0

SectionIndex(rc, name) ==
    IF \E i \in 1..Len(rc.sections) : rc.sections[i].name = name
    THEN CHOOSE i \in 1..Len(rc.sections) : rc.sections[i].name = name
    ELSE 0

\* d[k] = v on an insertion-ordered dict.
DictSet(items, k, v) ==
    IF IndexOf(items, k) = 0 THEN Append(items, Item(k, v))
    ELSE [items EXCEPT ![IndexOf(items, k)] = Item(k, v)]

\* del d[k] when present.
DictDel(items, k) ==
    IF IndexOf(items, k) = 0 THEN items
    ELSE SubSeq(items, 1, IndexOf(items, k) - 1)
             \o SubSeq(items, IndexOf(items, k) + 1, Len(items))

\* raw_config._sections.get(profile, {}) and raw_config._defaults
SectionItems(rc, name) ==
    IF SectionIndex(rc, name) = 0 THEN <<>> ELSE rc.sections[SectionIndex(rc, name)].items

ItemsOf(rc, profile) ==
    IF profile = DEFAULT_SECTION THEN rc.defaults ELSE SectionItems(rc, profile)

\* The same dict with new contents.
WithItems(rc, profile, items) ==
    IF profile = DEFAULT_SECTION THEN [rc EXCEPT !.defaults = items]
    ELSE [rc EXCEPT !.sections[SectionIndex(rc, profile)].items = items]

\* has_section never acknowledges the default section.
has_section(rc, section) == section # DEFAULT_SECTION /\ SectionIndex(rc, section) # 0

add_section(rc, section) ==
    [rc EXCEPT !.sections = Append(rc.sections, Section(section, <<>>))]

has_option(rc, section, option) == IndexOf(ItemsOf(rc, section), option) # 0

\* The raw value get() finds: the section's own value, else the default's.
RawValue(rc, section, option) ==
    IF IndexOf(ItemsOf(rc, section), option) # 0
    THEN ItemsOf(rc, section)[IndexOf(ItemsOf(rc, section), option)].v
    ELSE rc.defaults[IndexOf(rc.defaults, option)].v

\* ConfigParser.get(section, option) of an option that exists: the raw value
\* after interpolation.
get(rc, section, option) ==
    LET r == before_get(RawValue(rc, section, option))
    IN  IF r.ok THEN Return(Some(r.val)) ELSE Raise("InterpolationSyntaxError", "")

\* ConfigParser.set(section, option, value) on an existing section: refused with
\* ValueError when the value is no valid interpolation source.
set(rc, section, option, value) ==
    IF before_set_ok(value)
    THEN [ok |-> TRUE, rc |-> WithItems(rc, section, DictSet(ItemsOf(rc, section), option, value))]
    ELSE [ok |-> FALSE, rc |-> rc]

remove_option(rc, section, option) ==
    WithItems(rc, section, DictDel(ItemsOf(rc, section), option))

-----------------------------------------------------------------------------
(* The profile file: lines, ConfigParser.read and ConfigParser.write *)

SecLine(name) == [t |-> "sec", k |-> name, v |-> <<>>]
OptLine(k, v) == [t |-> "kv", k |-> k, v |-> v]
BlankLine == [t |-> "blank", k |-> "", v |-> <<>>]
JunkLine == [t |-> "junk", k |-> "", v |-> <<>>]

\* One line of ConfigParser._read (strict mode).  st.cur is the section being
\* filled, None before the first header; st.exc the exception raised so far;
\* st.pending records a line that matches nothing, reported once the file is read.
ReadLine(st, ln) ==
    IF st.exc # "" THEN st
    ELSE CASE ln.t = "blank" -> st
           [] ln.t = "sec" ->
                IF ln.k = DEFAULT_SECTION THEN [st EXCEPT !.cur = Some(ln.k)]
                ELSE IF SectionIndex(st.rc, ln.k) # 0
                     THEN [st EXCEPT !.exc = "DuplicateSectionError"]
                     ELSE [st EXCEPT !.rc = add_section(st.rc, ln.k), !.cur = Some(ln.k)]
           [] ln.t = "kv" ->
                IF st.cur = None THEN [st EXCEPT !.exc = "MissingSectionHeaderError"]
                ELSE IF has_option(st.rc, Val(st.cur), ln.k)
                     THEN [st EXCEPT !.exc = "DuplicateOptionError"]
                     ELSE [st EXCEPT !.rc = WithItems(st.rc, Val(st.cur),
                              Append(ItemsOf(st.rc, Val(st.cur)), Item(ln.k, Strip(ln.v))))]
           [] ln.t = "junk" ->
                IF st.cur = None THEN [st EXCEPT !.exc = "MissingSectionHeaderError"]
                ELSE [st EXCEPT !.pending = TRUE]

RECURSIVE ReadLines(_, _, _)
ReadLines(lines, i, st) ==
    IF i > Len(lines) THEN st ELSE ReadLines(lines, i + 1, ReadLine(st, lines[i]))

\* ConfigParser.read_file on the content of one file: the parsed object, or the
\* exception (a subclass of configparser.Error) it raises.
read_lines(lines) ==
    LET st == ReadLines(lines, 1,
                  [rc |-> ConfigParser, cur |-> None, exc |-> "", pending |-> FALSE])
    IN  IF st.exc # "" THEN [ok |-> FALSE, exc |-> st.exc, rc |-> ConfigParser]
        ELSE IF st.pending THEN [ok |-> FALSE, exc |-> "ParsingError", rc |-> ConfigParser]
        ELSE [ok |-> TRUE, exc |-> "", rc |-> st.rc]

\* ConfigParser._write_section: the header, "key = value" per item, a blank line.
write_section(name, items) ==
    <<SecLine(name)>> \o [i \in 1..Len(items) |-> OptLine(items[i].k, items[i].v)]
        \o <<BlankLine>>

RECURSIVE WriteSections(_, _)
WriteSections(sections, i) ==
    IF i > Len(sections) THEN <<>>
    ELSE write_section(sections[i].name, sections[i].items) \o WriteSections(sections, i + 1)

\* ConfigParser.write: the defaults when there are any, then every section.
write(rc) ==
    (IF rc.defaults # <<>> THEN write_section(DEFAULT_SECTION, rc.defaults) ELSE <<>>)
        \o WriteSections(rc.sections, 1)

\* No file at _get_path().
NoFile == [exists |-> FALSE, mode |-> 0, lines |-> <<>>]

\* _fetch_from_fs: ConfigParser.read skips a file that is not there.
_fetch_from_fs(f) ==
    IF ~f.exists THEN [ok |-> TRUE, exc |-> "", rc |-> ConfigParser]
    ELSE read_lines(f.lines)

-----------------------------------------------------------------------------
(* Helpers of provider.py on a ConfigParser *)

_create_section_if_absent(rc, profile) ==
    IF ~has_section(rc, profile) /\ profile # DEFAULT_SECTION
    THEN add_section(rc, profile)
    ELSE rc

_get_option_if_exists(rc, profile, option) ==
    IF profile = DEFAULT_SECTION
    THEN IF has_option(rc, profile, option) THEN get(rc, profile, option) ELSE Return(None)
    ELSE IF IndexOf(SectionItems(rc, profile), option) = 0 THEN Return(None)
         ELSE get(rc, profile, option)

\* Mutant of _set_option: a falsy value removes the option from the default
\* section instead of the profile.
_set_option_default_section(rc, profile, option, value) ==
    IF Truthy(value) THEN set(rc, profile, option, Val(value))
    ELSE [ok |-> TRUE, rc |-> remove_option(rc, DEFAULT_SECTION, option)]

\* value is an optional str; a falsy one (None, "") removes the option.
_set_option(rc, profile, option, value) ==
    IF Truthy(value) THEN set(rc, profile, option, Val(value))
    ELSE [ok |-> TRUE, rc |-> remove_option(rc, profile, option)]

\* Lines 103-109: the seven _set_option calls in order; the first ValueError
\* ends the sequence.
RECURSIVE SetOptions(_, _, _, _)
SetOptions(st, profile, cfg, i) ==
    IF i > Len(Keys) \/ ~st.ok THEN st
    ELSE SetOptions(_set_option(st.rc, profile, Keys[i], Field(cfg, Keys[i])),
                    profile, cfg, i + 1)

-----------------------------------------------------------------------------
(* File system calls of _overwrite_config *)

\* m & ~u on permission bits.
RECURSIVE AndNot(_, _)
AndNot(m, u) ==
    IF m = 0 THEN 0
    ELSE (IF m % 2 = 1 /\ u % 2 = 0 THEN 1 ELSE 0) + 2 * AndNot(m \div 2, u \div 2)

\* os.open(path, O_CREAT | O_RDWR, 0o600) then os.close: creates an empty file
\* with the permissions the umask leaves; an existing file is left as it is.
os_open_creat(f, umask) ==
    IF f.exists THEN f
    ELSE [exists |-> TRUE, mode |-> S_IFREG + AndNot(MODE_0600, umask), lines |-> <<>>]

\* os.chmod(path, 0o600)
os_chmod(f) == [f EXCEPT !.mode = S_IFREG + MODE_0600]

\* Mutant of open_w: the file is opened without being truncated.
open_w_no_truncate(f) == f

\* open(path, "w") of an existing file truncates it; the mode stays.
open_w(f) == [f EXCEPT !.lines = <<>>]

\* The buffered text reaches the file at offset 0 when the with-block closes it;
\* what the file holds beyond the written length stays.
close_w(f, lines) == [f EXCEPT !.lines = lines \o SubSeq(f.lines, Len(lines) + 1, Len(f.lines))]

\* Mutant of EnsureMode: the mode of an existing file is not reset.
EnsureMode_no_chmod(f, umask) ==
    IF ~f.exists THEN os_open_creat(f, umask) ELSE f

\* Lines 79-85: create when absent, then reset the mode unless it is 0o100600.
EnsureMode(f, umask) ==
    LET created == IF ~f.exists THEN os_open_creat(f, umask) ELSE f
    IN  IF created.mode # S_IFREG_0600 THEN os_chmod(created) ELSE created

_overwrite_config(rc, f, umask) == close_w(open_w(EnsureMode(f, umask)), write(rc))

-----------------------------------------------------------------------------
(* The providers *)

\* SparkTaskContextConfigProvider.get_config: tc is TaskContext.get(), None
\* outside a Spark task (or without pyspark); otherwise its local properties.
SparkTaskContextConfigProvider_get_config(tc) ==
    IF tc # None
    THEN LET config == from_token(Val(tc).url, Val(tc).token, None, Val(tc).ignoreTls, None)
         IN  IF is_valid(config) THEN Some(config) ELSE None
    ELSE None

\* EnvironmentVariableConfigProvider.get_config: env maps the seven
\* DATABRICKS_* names to os.environ.get(name).
EnvironmentVariableConfigProvider_get_config(env) ==
    LET config == DatabricksConfig(env.host, env.username, env.password, env.token,
                                   env.refresh_token, env.insecure, env.jobs_api_version)
    IN  IF is_valid(config) THEN Some(config) ELSE None

\* ProfileConfigProvider(profile).get_config: a fresh read of the file, the
\* seven options in order; the first exception of the read or of a get propagates.
ProfileConfigProvider_get_config(profile, f) ==
    LET raw == _fetch_from_fs(f)
        opt == [i \in 1..Len(Keys) |-> _get_option_if_exists(raw.rc, profile, Keys[i])]
    IN  IF ~raw.ok THEN Raise(raw.exc, "")
        ELSE IF \E i \in 1..Len(Keys) : Raised(opt[i])
        THEN opt[CHOOSE i \in 1..Len(Keys) :
                    Raised(opt[i]) /\ \A j \in 1..(i - 1) : ~Raised(opt[j])]
        ELSE LET config == DatabricksConfig(opt[1].val, opt[2].val, opt[3].val, opt[4].val,
                                            opt[5].val, opt[6].val, opt[7].val)
             IN  IF is_valid(config) THEN Return(Some(config)) ELSE Return(None)

\* Mutant of DefaultConfigProvider_get_config: the environment is asked before
\* the task context.
DefaultConfigProvider_get_config_env_first(tc, env, f) ==
    LET spark == SparkTaskContextConfigProvider_get_config(tc)
        envc == EnvironmentVariableConfigProvider_get_config(env)
        prof == ProfileConfigProvider_get_config(DEFAULT_SECTION, f)
    IN  IF envc # None /\ is_valid(Val(envc)) THEN Return(envc)
        ELSE IF spark # None /\ is_valid(Val(spark)) THEN Return(spark)
        ELSE IF Raised(prof) THEN prof
        ELSE IF prof.val # None /\ is_valid(Val(prof.val)) THEN prof
        ELSE Return(None)

\* DefaultConfigProvider.get_config: the first provider of
\* (SparkTaskContext, EnvironmentVariable, Profile(DEFAULT)) whose config is
\* not None and valid; a later provider is not asked once one answered.
DefaultConfigProvider_get_config(tc, env, f) ==
    LET spark == SparkTaskContextConfigProvider_get_config(tc)
        envc == EnvironmentVariableConfigProvider_get_config(env)
        prof == ProfileConfigProvider_get_config(DEFAULT_SECTION, f)
    IN  IF spark # None /\ is_valid(Val(spark)) THEN Return(spark)
        ELSE IF envc # None /\ is_valid(Val(envc)) THEN Return(envc)
        ELSE IF Raised(prof) THEN prof
        ELSE IF prof.val # None /\ is_valid(Val(prof.val)) THEN prof
        ELSE Return(None)

-----------------------------------------------------------------------------
(* The module-level API *)

\* A Python object handed to set_config_provider: whether it is an instance of
\* DatabricksConfigProvider, its truth value, and what its get_config returns.
Object(name, provider, truthy, ret) ==
    [name |-> name, provider |-> provider, truthy |-> truthy, ret |-> ret]

\* bool(x) of an optional object.
ObjectTruthy(x) == x # None /\ Val(x).truthy

isinstance_DatabricksConfigProvider(x) == x # None /\ Val(x).provider

\* Mutant of get_config: an override that returns None falls through to the
\* default chain.
get_config_fallback(provider, tc, env, f) ==
    IF ObjectTruthy(provider) /\ Val(provider).ret # None
    THEN Return(Val(provider).ret)
    ELSE LET config == DefaultConfigProvider_get_config(tc, env, f)
         IN  IF Raised(config) THEN config
             ELSE IF config.val # None THEN config
             ELSE for_profile(None)

\* Mutant of get_config: the default chain's None is returned instead of raised.
get_config_returns_none(provider, tc, env, f) ==
    IF ObjectTruthy(provider)
    THEN IF Val(provider).ret # None THEN Return(Val(provider).ret)
         ELSE Raise("InvalidConfigurationError", "Custom provider returned no DatabricksConfig")
    ELSE DefaultConfigProvider_get_config(tc, env, f)

\* get_config()
get_config(provider, tc, env, f) ==
    IF ObjectTruthy(provider)
    THEN IF Val(provider).ret # None THEN Return(Val(provider).ret)
         ELSE Raise("InvalidConfigurationError", "Custom provider returned no DatabricksConfig")
    ELSE LET config == DefaultConfigProvider_get_config(tc, env, f)
         IN  IF Raised(config) THEN config
             ELSE IF config.val # None THEN config
             ELSE for_profile(None)

\* profile if profile else DEFAULT_SECTION, for an optional profile name.
ResolveProfile(profile) ==
    IF profile # None /\ Val(profile) # "" THEN Val(profile) ELSE DEFAULT_SECTION

\* Mutant of get_config_for_profile: raises like get_config when the profile
\* yields nothing.
get_config_for_profile_raises(profile, env, f) ==
    LET envc == EnvironmentVariableConfigProvider_get_config(env)
        prof == ProfileConfigProvider_get_config(ResolveProfile(profile), f)
    IN  IF envc # None /\ is_valid(Val(envc)) THEN Return(envc)
        ELSE IF Raised(prof) THEN prof
        ELSE IF prof.val # None THEN prof
        ELSE for_profile(profile)

\* get_config_for_profile(profile)
get_config_for_profile(profile, env, f) ==
    LET envc == EnvironmentVariableConfigProvider_get_config(env)
        prof == ProfileConfigProvider_get_config(ResolveProfile(profile), f)
    IN  IF envc # None /\ is_valid(Val(envc)) THEN Return(envc)
        ELSE IF Raised(prof) THEN prof
        ELSE IF prof.val # None THEN prof
        ELSE Return(Some(empty))

\* set_config_provider(provider): the new value of _config_provider and the outcome.
set_config_provider(old, provider) ==
    IF ObjectTruthy(provider) /\ ~isinstance_DatabricksConfigProvider(provider)
    THEN [slot |-> old, out |-> Raise("Exception", "Must be instance of DatabricksConfigProvider")]
    ELSE [slot |-> provider, out |-> Return(None)]

\* get_config_provider()
get_config_provider(provider) == Return(provider)

\* update_and_persist_config(profile, databricks_config): the file afterwards and
\* the outcome.  Nothing is written when the read or a set raises.
update_and_persist_config(profile, cfg, f, umask) ==
    LET name == ResolveProfile(profile)
        raw == _fetch_from_fs(f)
        st == SetOptions([ok |-> TRUE, rc |-> _create_section_if_absent(raw.rc, name)],
                         name, cfg, 1)
    IN  IF ~raw.ok THEN [fs |-> f, out |-> Raise(raw.exc, "")]
        ELSE IF ~st.ok THEN [fs |-> f, out |-> Raise("ValueError", "invalid interpolation syntax")]
        ELSE [fs |-> _overwrite_config(st.rc, f, umask), out |-> Return(None)]

-----------------------------------------------------------------------------
(* Inputs of the sequential client *)

\* No value below holds a "(", so a "%" is either half of an escape "%%" or a
\* syntax error.

\* Records handed to update_and_persist_config.
cfgToken == from_token(Some(<<"h">>), Some(<<"t">>), None, None, None)
cfgPassword == from_password(Some(<<"h">>), Some(<<"u">>), Some(<<"w">>), None, None)
cfgAll == DatabricksConfig(Some(<<"h">>), Some(<<"u">>), Some(<<"w">>), Some(<<"t">>),
                           Some(<<"r">>), Some(<<"1">>), Some(<<"2">>))
\* token "t%%": an escaped percent sign
cfgEscaped == from_token(Some(<<"h">>), Some(<<"t", "%", "%">>), None, None, None)
\* token "t%": refused by ConfigParser.set
cfgPercent == from_token(Some(<<"h">>), Some(<<"t", "%">>), None, None, None)
\* token "": present (not None) and falsy
cfgEmptyToken == from_token(Some(<<"h">>), Some(<<>>), None, None, None)
\* host " h": leading blank
cfgPadded == from_token(Some(<<" ", "h">>), Some(<<"t">>), None, None, None)

Configs == {cfgToken, cfgPassword, cfgAll, cfgEscaped, cfgPercent, cfgEmptyToken,
            cfgPadded, empty}

\* The records the resolver's client writes.
CoreConfigs == {cfgToken, cfgEmptyToken}

\* How many named profiles the callers use.
NamedProfiles == 1

ProfileNames == <<"team", "dev", "ops">>

\* Profile arguments: None, "" and a named profile for the store alone;
\* None and the named profiles for the resolver's client and the writers.
NamedProfileArgs == {Some(ProfileNames[i]) : i \in 1..NamedProfiles}
ProfileArgs == {None, Some(""), Some(ProfileNames[1])}
CoreProfileArgs == {None} \cup NamedProfileArgs

\* Process umasks: 0o022, 0o077, 0o277.
Umasks == {18, 63, 191}
CoreUmasks == {18}

\* st_mode of the file as others may leave it: 0o100600, 0o100644, 0o100400.
Modes == {S_IFREG + 384, S_IFREG + 420, S_IFREG + 256}
CoreModes == {S_IFREG + 420}

\* os.environ: nothing set; host and token; host, username and password; host and
\* username only.
EnvRecord(host, username, password, token) ==
    [host |-> host, username |-> username, password |-> password, token |-> token,
     refresh_token |-> None, insecure |-> None, jobs_api_version |-> None]

Environs == {EnvRecord(None, None, None, None),
             EnvRecord(Some(<<"e">>), None, None, Some(<<"k">>)),
             EnvRecord(Some(<<"e">>), Some(<<"u">>), Some(<<"w">>), None),
             EnvRecord(Some(<<"e">>), Some(<<"u">>), None, None)}

\* TaskContext.get(): None, or the local properties of a task.
TaskContexts == {None,
                 Some([url |-> Some(<<"s">>), token |-> Some(<<"k">>), ignoreTls |-> None]),
                 Some([url |-> Some(<<"s">>), token |-> None, ignoreTls |-> Some(<<"T">>)])}

\* Arguments of set_config_provider: None, the int 0, the str "x", a provider
\* whose get_config returns None, a provider whose get_config returns a config.
customConfig == from_token(Some(<<"x">>), Some(<<"k">>), None, None, None)
ProviderArgs == {None,
                 Some(Object("0", FALSE, FALSE, None)),
                 Some(Object("'x'", FALSE, TRUE, None)),
                 Some(Object("ReturnsNone", TRUE, TRUE, None)),
                 Some(Object("ReturnsConfig", TRUE, TRUE, Some(customConfig)))}

\* Contents an editor may leave in the file: a hand-written file with an
\* unrecognised key, a line that is no header and no option, a raw "%".
HandWritten ==
    <<SecLine(DEFAULT_SECTION), OptLine(HOST, <<"d">>), OptLine(TOKEN, <<"k">>), BlankLine,
      SecLine("team"), OptLine(HOST, <<"h">>), OptLine(USERNAME, <<"u">>),
      OptLine(PASSWORD, <<"w">>), OptLine("extra", <<"x">>), BlankLine>>
Malformed == <<JunkLine>>
RawPercent ==
    <<SecLine(DEFAULT_SECTION), OptLine(HOST, <<"d">>), OptLine(TOKEN, <<"k", "%">>), BlankLine>>

Contents == {HandWritten, Malformed, RawPercent}

-----------------------------------------------------------------------------
(* The sequential client: one call at a time *)

Writers == {1, 2}

\* A call and its outcome; before is what os.path.exists and os.stat said of
\* the file when update_and_persist_config was called.
Call(op, profile, cfg, obj, before, out) ==
    [op |-> op, profile |-> profile, cfg |-> cfg, obj |-> obj, before |-> before, out |-> out]

Stat(f) == [exists |-> f.exists, mode |-> f.mode]

NoCall == Call("none", None, empty, None, Stat(NoFile), Return(None))

Job(profile, cfg, umask) == [profile |-> profile, cfg |-> cfg, umask |-> umask]

Idle ==
    /\ job = [w \in Writers |-> Job(None, empty, 0)]
    /\ pc = [w \in Writers |-> "idle"]
    /\ raw_config = [w \in Writers |-> ConfigParser]

Init ==
    /\ _config_provider = None
    /\ environ = EnvRecord(None, None, None, None)
    /\ task_context = None
    /\ fs = NoFile
    /\ last = NoCall
    /\ Idle

GetConfig ==
    /\ last' = Call("get_config", None, empty, None, Stat(NoFile),
                    get_config(_config_provider, task_context, environ, fs))
    /\ UNCHANGED <<_config_provider, environ, task_context, fs, job, pc, raw_config>>

GetConfigForProfile ==
    \E profile \in CoreProfileArgs :
        /\ last' = Call("get_config_for_profile", profile, empty, None, Stat(NoFile),
                        get_config_for_profile(profile, environ, fs))
        /\ UNCHANGED <<_config_provider, environ, task_context, fs, job, pc, raw_config>>

SetConfigProvider ==
    \E provider \in ProviderArgs :
        LET r == set_config_provider(_config_provider, provider)
        IN  /\ _config_provider' = r.slot
            /\ last' = Call("set_config_provider", None, empty, provider, Stat(NoFile), r.out)
            /\ UNCHANGED <<environ, task_context, fs, job, pc, raw_config>>

GetConfigProvider ==
    /\ last' = Call("get_config_provider", None, empty, _config_provider, Stat(NoFile),
                    get_config_provider(_config_provider))
    /\ UNCHANGED <<_config_provider, environ, task_context, fs, job, pc, raw_config>>

UpdateAndPersistConfig(profiles, configs, umasks) ==
    \E profile \in profiles, cfg \in configs, umask \in umasks :
        LET r == update_and_persist_config(profile, cfg, fs, umask)
        IN  /\ fs' = r.fs
            /\ last' = Call("update_and_persist_config", profile, cfg, None, Stat(fs), r.out)
            /\ UNCHANGED <<_config_provider, environ, task_context, job, pc, raw_config>>

\* The surroundings change between calls: environment variables, the task
\* context, and the file (edited, chmod-ed or deleted by someone else).
SetEnviron ==
    \E env \in Environs :
        /\ environ' = env
        /\ last' = NoCall
        /\ UNCHANGED <<_config_provider, task_context, fs, job, pc, raw_config>>

SetTaskContext ==
    \E tc \in TaskContexts :
        /\ task_context' = tc
        /\ last' = NoCall
        /\ UNCHANGED <<_config_provider, environ, fs, job, pc, raw_config>>

EditFile(modes) ==
    \E lines \in Contents, mode \in modes :
        /\ fs' = [exists |-> TRUE, mode |-> mode, lines |-> lines]
        /\ last' = NoCall
        /\ UNCHANGED <<_config_provider, environ, task_context, job, pc, raw_config>>

ChmodFile(modes) ==
    \E mode \in modes :
        /\ fs.exists
        /\ fs' = [fs EXCEPT !.mode = mode]
        /\ last' = NoCall
        /\ UNCHANGED <<_config_provider, environ, task_context, job, pc, raw_config>>

DeleteFile ==
    /\ fs.exists
    /\ fs' = NoFile
    /\ last' = NoCall
    /\ UNCHANGED <<_config_provider, environ, task_context, job, pc, raw_config>>

Next ==
    \/ GetConfig
    \/ GetConfigForProfile
    \/ SetConfigProvider
    \/ GetConfigProvider
    \/ UpdateAndPersistConfig(CoreProfileArgs, CoreConfigs, CoreUmasks)
    \/ SetEnviron
    \/ SetTaskContext
    \/ EditFile(CoreModes)
    \/ DeleteFile

Spec == Init /\ [][Next]_vars

\* The store alone: every record, profile argument, umask and file mode, with
\* no override, no environment variables and no task context.
NextStore ==
    \/ UpdateAndPersistConfig(ProfileArgs, Configs, Umasks)
    \/ EditFile(Modes)
    \/ ChmodFile(Modes)
    \/ DeleteFile

SpecStore == Init /\ [][NextStore]_vars

-----------------------------------------------------------------------------
(* Two processes in update_and_persist_config on the same file.  Each system  *)
(* call is a step; nothing is locked.                                         *)

\* The arguments of the two calls: different profiles, records that
\* ConfigParser.set accepts.
WriterProfiles == {None} \cup NamedProfileArgs
WriterConfigs == {cfgToken, cfgAll}
Jobs == {Job(p, c, u) : p \in WriterProfiles, c \in WriterConfigs, u \in CoreUmasks}

InitWriters ==
    /\ _config_provider = None
    /\ environ = EnvRecord(None, None, None, None)
    /\ task_context = None
    /\ last = NoCall
    /\ fs \in {NoFile, [exists |-> TRUE, mode |-> S_IFREG + 420, lines |-> HandWritten]}
    /\ job \in {j \in [Writers -> Jobs] :
                   ResolveProfile(j[1].profile) # ResolveProfile(j[2].profile)}
    /\ pc = [w \in Writers |-> "fetch"]
    /\ raw_config = [w \in Writers |-> ConfigParser]

\* Line 101: raw_config = _fetch_from_fs()
Fetch(w) ==
    /\ pc[w] = "fetch"
    /\ LET raw == _fetch_from_fs(fs)
       IN  /\ raw_config' = [raw_config EXCEPT ![w] = raw.rc]
           /\ pc' = [pc EXCEPT ![w] = IF raw.ok THEN "modify" ELSE "raised"]
    /\ UNCHANGED <<_config_provider, environ, task_context, fs, last, job>>

\* Lines 102-109: the section and the seven options, in memory
Modify(w) ==
    /\ pc[w] = "modify"
    /\ LET name == ResolveProfile(job[w].profile)
           st == SetOptions([ok |-> TRUE,
                             rc |-> _create_section_if_absent(raw_config[w], name)],
                            name, job[w].cfg, 1)
       IN  /\ raw_config' = [raw_config EXCEPT ![w] = st.rc]
           /\ pc' = [pc EXCEPT ![w] = IF st.ok THEN "exists" ELSE "raised"]
    /\ UNCHANGED <<_config_provider, environ, task_context, fs, last, job>>

\* Line 79: os.path.exists(config_path)
Exists(w) ==
    /\ pc[w] = "exists"
    /\ pc' = [pc EXCEPT ![w] = IF fs.exists THEN "stat" ELSE "create"]
    /\ UNCHANGED <<_config_provider, environ, task_context, fs, last, job, raw_config>>

\* Lines 80-81: os.open(config_path, O_CREAT | O_RDWR, 0o600); os.close
Create(w) ==
    /\ pc[w] = "create"
    /\ fs' = os_open_creat(fs, job[w].umask)
    /\ pc' = [pc EXCEPT ![w] = "stat"]
    /\ UNCHANGED <<_config_provider, environ, task_context, last, job, raw_config>>

\* Line 84: os.stat(config_path).st_mode
StatMode(w) ==
    /\ pc[w] = "stat"
    /\ pc' = [pc EXCEPT ![w] = IF fs.mode # S_IFREG_0600 THEN "chmod" ELSE "open"]
    /\ UNCHANGED <<_config_provider, environ, task_context, fs, last, job, raw_config>>

\* Line 85: os.chmod(config_path, 0o600)
Chmod(w) ==
    /\ pc[w] = "chmod"
    /\ fs' = os_chmod(fs)
    /\ pc' = [pc EXCEPT ![w] = "open"]
    /\ UNCHANGED <<_config_provider, environ, task_context, last, job, raw_config>>

\* Line 87: open(config_path, "w")
Open(w) ==
    /\ pc[w] = "open"
    /\ fs' = open_w(fs)
    /\ pc' = [pc EXCEPT ![w] = "write"]
    /\ UNCHANGED <<_config_provider, environ, task_context, last, job, raw_config>>

\* Line 88 and the end of the with-block: raw_config.write(cfg), close
Write(w) ==
    /\ pc[w] = "write"
    /\ fs' = close_w(fs, write(raw_config[w]))
    /\ pc' = [pc EXCEPT ![w] = "done"]
    /\ UNCHANGED <<_config_provider, environ, task_context, last, job, raw_config>>

NextWriters ==
    \E w \in Writers :
        \/ Fetch(w)
        \/ Modify(w)
        \/ Exists(w)
        \/ Create(w)
        \/ StatMode(w)
        \/ Chmod(w)
        \/ Open(w)
        \/ Write(w)

SpecWriters == InitWriters /\ [][NextWriters]_vars

-----------------------------------------------------------------------------
(* What each source yields in the current state *)

SparkAttempt == SparkTaskContextConfigProvider_get_config(task_context)
EnvAttempt == EnvironmentVariableConfigProvider_get_config(environ)
ProfileAttempt(profile) == ProfileConfigProvider_get_config(profile, fs)

\* An attempt yields a valid record: it is not None and host and token, or
\* host, username and password, are present.
Yields(attempt) ==
    /\ attempt # None
    /\ \/ Val(attempt).host # None /\ Val(attempt).token # None
       \/ Val(attempt).host # None /\ Val(attempt).username # None
            /\ Val(attempt).password # None

ProfileYields(profile) ==
    Returned(ProfileAttempt(profile)) /\ Yields(ProfileAttempt(profile).val)

NoOverride == _config_provider = None
OverrideInstalled == _config_provider # None /\ Val(_config_provider).provider

NotConfigured == Raise("InvalidConfigurationError", "not configured")
OverrideReturnedNothing ==
    Raise("InvalidConfigurationError", "Custom provider returned no DatabricksConfig")

NoneYields == ~Yields(SparkAttempt) /\ ~Yields(EnvAttempt) /\ ~ProfileYields(DEFAULT_SECTION)

\* A call returned a record for which valid holds.
ReturnedValid(out) == Returned(out) /\ Yields(out.val)

Updated == last.op = "update_and_persist_config" /\ Returned(last.out)

-----------------------------------------------------------------------------
(* C1 *)

\* C1: with no override installed, get_config() returns the record of the first
\* of task context, environment, default profile whose attempt yields a valid
\* record: the task context's whatever the other two hold, else the
\* environment's whatever the file holds, else the default profile's.
C1_FirstValidWins ==
    (last.op = "get_config" /\ NoOverride) =>
        /\ Yields(SparkAttempt) => last.out = Return(SparkAttempt)
        /\ (~Yields(SparkAttempt) /\ Yields(EnvAttempt)) => last.out = Return(EnvAttempt)
        /\ (~Yields(SparkAttempt) /\ ~Yields(EnvAttempt) /\ ProfileYields(DEFAULT_SECTION))
              => last.out = ProfileAttempt(DEFAULT_SECTION)

\* All three sources yield a valid record and the task context's was returned.
C1_Witness ==
    /\ last.op = "get_config" /\ NoOverride
    /\ Yields(SparkAttempt) /\ Yields(EnvAttempt) /\ ProfileYields(DEFAULT_SECTION)
    /\ last.out = Return(SparkAttempt)

-----------------------------------------------------------------------------
(* C2 *)

\* C2: with an override installed, get_config() is decided by the override
\* alone: its record when it returns one, the "custom provider returned
\* nothing" error when it returns None, whatever the default chain would yield.
C2_OverrideOnly ==
    (last.op = "get_config" /\ OverrideInstalled) =>
        IF Val(_config_provider).ret = None
        THEN last.out = OverrideReturnedNothing
        ELSE last.out = Return(Val(_config_provider).ret)

\* The override returned None while every source of the default chain would
\* have yielded a valid record, and the call failed.
C2_Witness ==
    /\ last.op = "get_config" /\ OverrideInstalled
    /\ Val(_config_provider).ret = None
    /\ Yields(SparkAttempt) /\ Yields(EnvAttempt) /\ ProfileYields(DEFAULT_SECTION)
    /\ last.out = OverrideReturnedNothing

-----------------------------------------------------------------------------
(* C3 *)

\* The default chain reached the profile file and reading it raised.
StoreError ==
    ~Yields(SparkAttempt) /\ ~Yields(EnvAttempt) /\ Raised(ProfileAttempt(DEFAULT_SECTION))

\* C3 as stated: with no override installed, get_config() fails with
\* NotConfigured exactly when none of the three sources yields a valid record,
\* and in every other state returns a valid record.
C3_NotConfiguredIffNoneYields ==
    (last.op = "get_config" /\ NoOverride) =>
        /\ (last.out = NotConfigured) <=> NoneYields
        /\ ~NoneYields => ReturnedValid(last.out)

\* C3 amended: with no override installed, get_config() fails with NotConfigured
\* exactly when none of the three sources yields a valid record and the profile
\* file was read without error; an error of that read propagates unchanged; in
\* every other state a valid record is returned.
C3_NotConfiguredUnlessStoreError ==
    (last.op = "get_config" /\ NoOverride) =>
        /\ (last.out = NotConfigured) <=> (NoneYields /\ ~StoreError)
        /\ StoreError => last.out = ProfileAttempt(DEFAULT_SECTION)
        /\ ~NoneYields => ReturnedValid(last.out)

\* Nothing is configured although the file exists, and the call failed with
\* NotConfigured.
C3_Witness ==
    /\ last.op = "get_config" /\ NoOverride
    /\ fs.exists /\ NoneYields /\ ~StoreError
    /\ last.out = NotConfigured

-----------------------------------------------------------------------------
(* C4 *)

\* C4: set_config_provider fails for every non-None value that is no
\* DatabricksConfigProvider, and the slot only ever holds None or a
\* DatabricksConfigProvider.
C4_OnlyProvidersStored ==
    /\ _config_provider = None \/ Val(_config_provider).provider
    /\ (last.op = "set_config_provider" /\ last.obj # None /\ ~Val(last.obj).provider)
          => Raised(last.out)

-----------------------------------------------------------------------------
(* C5 *)

C5_Expected(profile) ==
    IF Yields(EnvAttempt) THEN Return(EnvAttempt)
    ELSE IF ProfileYields(profile) THEN ProfileAttempt(profile)
    ELSE Return(Some(empty))

\* C5 as stated: get_config_for_profile never raises; it returns the
\* environment's record if valid, else the named profile's if valid, else the
\* empty record.
C5_NeverRaises ==
    last.op = "get_config_for_profile" =>
        /\ Returned(last.out)
        /\ last.out = C5_Expected(ResolveProfile(last.profile))

\* C5 amended: get_config_for_profile returns the environment's record if valid
\* (the file is then not read), else the named profile's if valid, else the
\* empty record, and raises only what reading the profile file raises; the task
\* context and the override do not matter.
C5_RaisesOnlyStoreErrors ==
    last.op = "get_config_for_profile" =>
        IF ~Yields(EnvAttempt) /\ Raised(ProfileAttempt(ResolveProfile(last.profile)))
        THEN last.out = ProfileAttempt(ResolveProfile(last.profile))
        ELSE /\ Returned(last.out)
             /\ last.out = C5_Expected(ResolveProfile(last.profile))

\* No environment credentials, a readable file without a valid "team" profile,
\* an override installed and a valid task context: the empty record came back.
C5_Witness ==
    /\ last.op = "get_config_for_profile" /\ last.profile = Some("team")
    /\ ~Yields(EnvAttempt) /\ fs.exists
    /\ Returned(ProfileAttempt("team")) /\ ~ProfileYields("team")
    /\ OverrideInstalled /\ Yields(SparkAttempt)
    /\ last.out = Return(Some(empty))

-----------------------------------------------------------------------------
(* C6 *)

\* C6: after every completed update_and_persist_config the file exists and its
\* permission bits are exactly 0o600, whether it was absent, 0o600 or anything
\* else before.
C6_OwnerOnlyAfterPersist ==
    Updated => fs.exists /\ fs.mode % 4096 = MODE_0600

\* The file existed with mode 0o644 before the call and has 0o600 after it.
C6_Witness ==
    /\ Updated
    /\ last.before.exists /\ last.before.mode = S_IFREG + 420
    /\ fs.mode % 4096 = MODE_0600

-----------------------------------------------------------------------------
(* C7 *)

\* C7: after a completed update_and_persist_config(profile, record), reloading
\* the file and reading each of the seven keys of the profile gives exactly the
\* record's field when it is truthy and None when it is falsy.
C7_RoundTripExact ==
    Updated =>
        \A i \in 1..Len(Keys) :
            _get_option_if_exists(_fetch_from_fs(fs).rc, ResolveProfile(last.profile), Keys[i])
                = IF Truthy(Field(last.cfg, Keys[i]))
                  THEN Return(Field(last.cfg, Keys[i]))
                  ELSE Return(None)

-----------------------------------------------------------------------------
(* C9 *)

\* C9: with no override, no task-context and no environment credentials, a
\* get_config() that follows a completed update_and_persist_config(None, r) with
\* r valid returns r's fields.
C9_GetAfterUpdateReturnsRecord ==
    [][(/\ Updated /\ last.profile = None /\ Yields(Some(last.cfg))
        /\ NoOverride /\ SparkAttempt = None /\ EnvAttempt = None
        /\ last'.op = "get_config")
          => last'.out = Return(Some(last.cfg))]_vars

-----------------------------------------------------------------------------
(* C10 *)

Unrecognised(item) == \A i \in 1..Len(Keys) : item.k # Keys[i]

\* g holds every profile of f other than name with the same keys and values, and
\* the same unrecognised keys of name.
Frame(f, g, name) ==
    LET a == _fetch_from_fs(f).rc
        b == _fetch_from_fs(g).rc
    IN  /\ name # DEFAULT_SECTION => b.defaults = a.defaults
        /\ \A i \in 1..Len(a.sections) :
              a.sections[i].name # name =>
                  /\ SectionIndex(b, a.sections[i].name) # 0
                  /\ SectionItems(b, a.sections[i].name) = a.sections[i].items
        /\ SelectSeq(ItemsOf(b, name), Unrecognised) = SelectSeq(ItemsOf(a, name), Unrecognised)

\* C10: a completed update_and_persist_config(profile, record) leaves every
\* other profile with the same keys and values, leaves the keys of the profile
\* other than the seven recognised ones, and leaves the override slot.
C10_Frame ==
    [][(last'.op = "update_and_persist_config" /\ Returned(last'.out))
          => /\ Frame(fs, fs', ResolveProfile(last'.profile))
             /\ _config_provider' = _config_provider]_vars

\* "team" was written while the default profile held keys, "team" held an
\* unrecognised key and an override was installed.
C10_Witness ==
    /\ Updated /\ last.profile = Some("team")
    /\ _fetch_from_fs(fs).rc.defaults # <<>>
    /\ IndexOf(SectionItems(_fetch_from_fs(fs).rc, "team"), "extra") # 0
    /\ OverrideInstalled

-----------------------------------------------------------------------------
(* C8 *)

AllDone == \A w \in Writers : pc[w] = "done"

\* What writer w wrote: its whole in-memory representation.
Written(w) == write(raw_config[w])

\* new written at offset 0 of a file holding old.
Overlay(new, old) == new \o SubSeq(old, Len(new) + 1, Len(old))

\* The file, reloaded, holds writer w's update of its profile.
UpdatePresent(w) ==
    /\ _fetch_from_fs(fs).ok
    /\ \A i \in 1..Len(Keys) :
          _get_option_if_exists(_fetch_from_fs(fs).rc, ResolveProfile(job[w].profile), Keys[i])
              = IF Truthy(Field(job[w].cfg, Keys[i]))
                THEN Return(Field(job[w].cfg, Keys[i]))
                ELSE Return(None)

\* C8 as stated: when both writers are done the file holds one writer's full
\* in-memory representation and nothing else.
C8_OneWritersRepresentation ==
    AllDone => fs.lines = Written(1) \/ fs.lines = Written(2)

\* C8 amended: when both writers are done the file holds one writer's full
\* in-memory representation, followed by nothing or, when the two rewrites
\* overlapped, by the end of the other writer's longer one.
C8_LastWriterThenTail ==
    AllDone =>
        \/ fs.lines = Written(1)
        \/ fs.lines = Written(2)
        \/ fs.lines = Overlay(Written(1), Written(2))
        \/ fs.lines = Overlay(Written(2), Written(1))

\* Lost update: both writers are done, the file is exactly one writer's
\* representation with its update, and the other writer's update is not in it.
C8_Witness ==
    /\ AllDone
    /\ \E w \in Writers :
          /\ fs.lines = Written(w)
          /\ UpdatePresent(w)
          /\ \A o \in Writers \ {w} : ~UpdatePresent(o)

=============================================================================
